---- MODULE Spec2Model ----
(***************************************************************************)
(* Lifecycle of the Prometheus receiver (pReceiver): Start, Shutdown and   *)
(* the two goroutines Start launches, as written in                        *)
(* receiver/prometheusreceiver/metrics_receiver.go.                        *)
(*                                                                         *)
(* Start is a sequence of steps (startPc) because the discovery goroutine  *)
(* it launches runs concurrently with the rest of Start.  The discovery    *)
(* and scrape managers are library objects: what their ApplyConfig and Run *)
(* return is an input, drawn with \E from the values the error interface   *)
(* allows.  The discovery manager is the only object that is handed the    *)
(* cancellable context; the scrape manager is constructed without one.     *)
(***************************************************************************)
EXTENDS Integers, Sequences, FiniteSets, TLC

\* ---------------------------------------------------------------- bounds
MaxStarts == 2        \* Start calls on one instance
MaxJobs == 2          \* scrape jobs in the configuration
MaxUserRules == 2     \* relabel rules a job carries before Start

\* ------------------------------------------------------------- constants
Nil == "nil"
NoFunc == 0
ErrDiscoveryConfig == "errDiscoveryConfig"
ErrScrapeConfig == "errScrapeConfig"
ErrCanceled == "errCanceled"
ErrDiscovery == "errDiscovery"
ErrScrape == "errScrape"
NoRet == "none"

JobsMapGcMinutes == 2
JobNames == <<"A", "B", "C", "D">>
InstanceLabel == "instance"
InstanceRegex == "^instance$"
MagicScrapeJobLabel == "MagicScrapeJobLabel"
DropRule ==
  [Action |-> "labeldrop", Regex |-> "^tmp$", Replacement |-> "", TargetLabel |-> ""]
KeepRule ==
  [Action |-> "keep", Regex |-> "^up$", Replacement |-> "", TargetLabel |-> ""]
UserRules == {DropRule, KeepRule}

StartIds == 1..MaxStarts

VARIABLES
  scrapeConfigs,       \* r.cfg.PrometheusConfig.ScrapeConfigs
  useStartTimeMetric,  \* r.cfg.UseStartTimeMetric
  cancelFunc,          \* r.cancelFunc: NoFunc or the context it cancels
  ctxParent,           \* per context created by Start: its parent
  ctxCancelled,        \* per context: its cancel function has been called
  callerCtxDone,       \* the context the host passes to Start is cancelled
  nStarts,             \* Start calls made so far
  startPc,             \* position of the Start call in progress
  startResult,         \* per Start call: what it returned
  shutPc,              \* position of the Shutdown call in progress
  shutResult,          \* outcome of the last Shutdown call
  shutRepeat,          \* the last Shutdown call found its context cancelled already
  disc,                \* per Start: state of the discovery goroutine
  discRet,             \* per Start: what discoveryManager.Run returned
  scr,                 \* per Start: state of the scrape goroutine
  scrRet,              \* per Start: what scrapeManager.Run returned
  scrSync,             \* per Start: the discovery manager whose SyncCh its Run reads
  fatal,               \* per Start and goroutine: errors given to host.ReportFatalError
  batches,             \* ConsumeMetrics calls received by r.consumer (their parity)
  ocaStore,            \* per Start: the appender bridge built by NewOcaStore
  scrapeManager        \* per Start: the scrape manager built by scrape.NewManager

vars == <<scrapeConfigs, useStartTimeMetric, cancelFunc, ctxParent, ctxCancelled,
          callerCtxDone, nStarts, startPc, startResult, shutPc, shutResult, shutRepeat,
          disc, discRet, scr, scrRet, scrSync, fatal, batches, ocaStore,
          scrapeManager>>

cfgVars == <<scrapeConfigs, useStartTimeMetric>>
ctxVars == <<cancelFunc, ctxParent, ctxCancelled>>
startVars == <<nStarts, startPc, startResult>>
shutVars == <<shutPc, shutResult, shutRepeat>>
discVars == <<disc, discRet>>
scrVars == <<scr, scrRet, scrSync, batches>>
wireVars == <<ocaStore, scrapeManager>>

\* ------------------------------------------------------------ helpers
RECURSIVE RuleSeqs(_)
RuleSeqs(n) ==
  IF n = 0 THEN {<<>>}
  ELSE RuleSeqs(n - 1) \cup
       {Append(s, u) : s \in {t \in RuleSeqs(n - 1) : Len(t) = n - 1}, u \in UserRules}

\* the configurations an instance can be constructed with
Configs ==
  UNION {
    {[i \in 1..n |-> [JobName |-> JobNames[i], RelabelConfigs |-> rs[i]]] :
        rs \in [1..n -> RuleSeqs(MaxUserRules)]} : n \in 0..MaxJobs}

NoStore == [built |-> FALSE, ctx |-> "none", jobsMap |-> FALSE, gcMinutes |-> 0,
            useStartTimeMetric |-> FALSE, scrapeManager |-> NoFunc]

panicked == shutResult = "panic"

\* a context derived from the context passed to Start
NewContextFromCaller == "caller"

\* context.WithCancel(context.Background()): the parent of the new context
NewContextParent == "background"

Done(k) ==
  \/ ctxCancelled[k]
  \/ ctxParent[k] = "caller" /\ callerCtxDone

\* an anchored literal pattern matches exactly the string between ^ and $
RegexMatches(re, str) == re = "^" \o str \o "$"

\* a slip that reads the name of the last job instead of job i's
NewRelabelConfigLastJob(cfgs, i) ==
  [Action |-> "replace", Regex |-> InstanceRegex,
   Replacement |-> cfgs[Len(cfgs)].JobName, TargetLabel |-> MagicScrapeJobLabel]

\* the relabel rule Start appends to job i
NewRelabelConfig(cfgs, i) ==
  [Action |-> "replace", Regex |-> InstanceRegex,
   Replacement |-> cfgs[i].JobName, TargetLabel |-> MagicScrapeJobLabel]

\* an append whose result is lost (made on a copy of the job's config)
AppendRuleToCopy(rules, rule) == rules

AppendRule(rules, rule) == Append(rules, rule)

\* a Start that keeps the cancel function of an earlier Start
StoreCancelIfUnset(old, new) == IF old = NoFunc THEN new ELSE old

\* r.cancelFunc = cancel
StoreCancel(old, new) == new

\* a side-table built whatever the flag says
JobsMapAlways(flag) == TRUE

\* if !r.cfg.UseStartTimeMetric { jobsMap = internal.NewJobsMap(...) }
NeedsJobsMap(flag) == ~flag

\* a Start that never calls SetScrapeManager
BackReferenceUnset(k) == NoFunc

\* ocaStore.SetScrapeManager(scrapeManager): the manager of the same Start
BackReference(k) == k

\* a sync stream taken from the discovery manager of the first Start
SyncChOfFirst(k) == 1

\* discoveryManager.SyncCh(): the stream of the manager built by this Start
SyncChOf(k) == k

\* a goroutine that reports whatever Run returned
ReportAlways(err) == TRUE

\* the goroutines' "if err := Run(); err != nil"
ReportOnReturn(err) == err # Nil

\* a goroutine that notifies the host from the log line and from the report
GoroutineExitTwice(reports, err) ==
  IF ReportOnReturn(err) THEN reports \o <<err, err>> ELSE reports

GoroutineExit(reports, err) ==
  IF ReportOnReturn(err) THEN Append(reports, err) ELSE reports

\* ---------------------------------------------------------------- Init
\* newPrometheusReceiver (lines 41-48): cfg, consumer and logger are set,
\* cancelFunc is left nil, nothing runs
NewReceiver ==
  /\ cancelFunc = NoFunc
  /\ ctxParent = [k \in StartIds |-> "none"]
  /\ ctxCancelled = [k \in StartIds |-> FALSE]
  /\ callerCtxDone = FALSE
  /\ nStarts = 0
  /\ startPc = "idle"
  /\ startResult = [k \in StartIds |-> NoRet]
  /\ shutPc = "idle"
  /\ shutResult = NoRet
  /\ shutRepeat = FALSE
  /\ disc = [k \in StartIds |-> "none"]
  /\ discRet = [k \in StartIds |-> NoRet]
  /\ scr = [k \in StartIds |-> "none"]
  /\ scrRet = [k \in StartIds |-> NoRet]
  /\ scrSync = [k \in StartIds |-> NoFunc]
  /\ fatal = [k \in StartIds |-> [disc |-> <<>>, scr |-> <<>>]]
  /\ batches = FALSE
  /\ ocaStore = [k \in StartIds |-> NoStore]
  /\ scrapeManager = [k \in StartIds |-> FALSE]

\* The lifecycle steps never read the content of a rule, so the lifecycle is
\* explored from one two-job configuration and both start-time modes.
DemoConfig ==
  <<[JobName |-> JobNames[1], RelabelConfigs |-> <<DropRule>>],
    [JobName |-> JobNames[2], RelabelConfigs |-> <<>>]>>

Init ==
  /\ scrapeConfigs = DemoConfig
  /\ useStartTimeMetric \in BOOLEAN
  /\ NewReceiver

\* --------------------------------------------------------------- Start
\* lines 52-54: the host calls Start; a new context is derived and its
\* cancel function stored
StartCall ==
  /\ ~panicked /\ startPc = "idle" /\ shutPc = "idle" /\ nStarts < MaxStarts
  /\ nStarts' = nStarts + 1
  /\ ctxParent' = [ctxParent EXCEPT ![nStarts + 1] = NewContextParent]
  /\ cancelFunc' = StoreCancel(cancelFunc, nStarts + 1)
  /\ startResult' = [startResult EXCEPT ![nStarts + 1] = "pending"]
  /\ startPc' = "inject"
  /\ UNCHANGED <<cfgVars, ctxCancelled, callerCtxDone, shutVars, discVars, scrVars,
                 fatal, wireVars>>

\* lines 58-66: append the job-name rule to every scrape config
InjectLabels ==
  /\ ~panicked /\ startPc = "inject"
  /\ scrapeConfigs' =
       [i \in DOMAIN scrapeConfigs |->
          [scrapeConfigs[i] EXCEPT
             !.RelabelConfigs = AppendRule(@, NewRelabelConfig(scrapeConfigs, i))]]
  /\ startPc' = "discApply"
  /\ UNCHANGED <<useStartTimeMetric, ctxVars, callerCtxDone, nStarts, startResult,
                 shutVars, discVars, scrVars, fatal, wireVars>>

\* lines 68-75: build the discovery manager on the new context, apply config
DiscoveryApplyConfig ==
  /\ ~panicked /\ startPc = "discApply"
  /\ \E err \in {Nil, ErrDiscoveryConfig} :
       IF err # Nil
       THEN /\ startResult' = [startResult EXCEPT ![nStarts] = err]
            /\ startPc' = "idle"
       ELSE /\ startPc' = "discRun"
            /\ UNCHANGED startResult
  /\ UNCHANGED <<cfgVars, ctxVars, callerCtxDone, nStarts, shutVars, discVars,
                 scrVars, fatal, wireVars>>

\* line 76: go func() { discoveryManager.Run() ... }
LaunchDiscovery ==
  /\ ~panicked /\ startPc = "discRun"
  /\ disc' = [disc EXCEPT ![nStarts] = "running"]
  /\ startPc' = "store"
  /\ UNCHANGED <<cfgVars, ctxVars, callerCtxDone, nStarts, startResult, shutVars,
                 discRet, scrVars, fatal, wireVars>>

\* lines 83-87: jobsMap only without UseStartTimeMetric; NewOcaStore(ctx, ...)
NewOcaStore ==
  /\ ~panicked /\ startPc = "store"
  /\ ocaStore' = [ocaStore EXCEPT ![nStarts] =
        [built |-> TRUE, ctx |-> "caller", jobsMap |-> NeedsJobsMap(useStartTimeMetric),
         gcMinutes |-> IF NeedsJobsMap(useStartTimeMetric) THEN JobsMapGcMinutes ELSE 0,
         useStartTimeMetric |-> useStartTimeMetric, scrapeManager |-> NoFunc]]
  /\ startPc' = "scrapeNew"
  /\ UNCHANGED <<cfgVars, ctxVars, callerCtxDone, nStarts, startResult, shutVars,
                 discVars, scrVars, fatal, scrapeManager>>

\* line 89: scrape.NewManager(logger, ocaStore)
NewScrapeManager ==
  /\ ~panicked /\ startPc = "scrapeNew"
  /\ scrapeManager' = [scrapeManager EXCEPT ![nStarts] = TRUE]
  /\ startPc' = "setBackRef"
  /\ UNCHANGED <<cfgVars, ctxVars, callerCtxDone, nStarts, startResult, shutVars,
                 discVars, scrVars, fatal, ocaStore>>

\* line 90: ocaStore.SetScrapeManager(scrapeManager)
SetScrapeManager ==
  /\ ~panicked /\ startPc = "setBackRef"
  /\ ocaStore' = [ocaStore EXCEPT ![nStarts].scrapeManager = BackReference(nStarts)]
  /\ startPc' = "scrapeApply"
  /\ UNCHANGED <<cfgVars, ctxVars, callerCtxDone, nStarts, startResult, shutVars,
                 discVars, scrVars, fatal, scrapeManager>>

\* lines 91-93: scrapeManager.ApplyConfig
ScrapeApplyConfig ==
  /\ ~panicked /\ startPc = "scrapeApply"
  /\ \E err \in {Nil, ErrScrapeConfig} :
       IF err # Nil
       THEN /\ startResult' = [startResult EXCEPT ![nStarts] = err]
            /\ startPc' = "idle"
       ELSE /\ startPc' = "scrapeRun"
            /\ UNCHANGED startResult
  /\ UNCHANGED <<cfgVars, ctxVars, callerCtxDone, nStarts, shutVars, discVars,
                 scrVars, fatal, wireVars>>

\* lines 94-100: go func() { scrapeManager.Run(SyncCh()) ... }; return nil
LaunchScrape ==
  /\ ~panicked /\ startPc = "scrapeRun"
  /\ scr' = [scr EXCEPT ![nStarts] = "running"]
  /\ scrSync' = [scrSync EXCEPT ![nStarts] = SyncChOf(nStarts)]
  /\ startResult' = [startResult EXCEPT ![nStarts] = Nil]
  /\ startPc' = "idle"
  /\ UNCHANGED <<cfgVars, ctxVars, callerCtxDone, nStarts, shutVars, discVars,
                 scrRet, batches, fatal, wireVars>>

StartSteps ==
  \/ InjectLabels \/ DiscoveryApplyConfig \/ LaunchDiscovery \/ NewOcaStore
  \/ NewScrapeManager \/ SetScrapeManager \/ ScrapeApplyConfig \/ LaunchScrape

\* ------------------------------------------------------------ Shutdown
\* line 104: the host calls Shutdown
ShutdownCall ==
  /\ ~panicked /\ startPc = "idle" /\ shutPc = "idle"
  /\ shutPc' = "cancel"
  /\ UNCHANGED <<cfgVars, ctxVars, callerCtxDone, startVars, shutResult, shutRepeat,
                 discVars, scrVars, fatal, wireVars>>

\* a cancel function that may be called only once
CancelPanicsOnRepeat(f, cancelled) == f = NoFunc \/ cancelled[f]

\* calling r.cancelFunc panics when the field was never set
CancelPanics(f, cancelled) == f = NoFunc

\* a Shutdown that joins the goroutines of the Start it cancels
JoinsBothLoops == {"disc", "scr"}

\* the goroutines Shutdown waits for before it returns: none
JoinedBeforeReturn == {}

LoopRunning(g, k) == IF g = "disc" THEN disc[k] = "running" ELSE scr[k] = "running"

\* lines 105-106: r.cancelFunc(); return nil
ShutdownCancel ==
  /\ ~panicked /\ shutPc = "cancel"
  /\ cancelFunc # NoFunc => \A g \in JoinedBeforeReturn : ~LoopRunning(g, cancelFunc)
  /\ IF CancelPanics(cancelFunc, ctxCancelled)
     THEN /\ shutResult' = "panic"
          /\ UNCHANGED <<shutPc, shutRepeat, ctxCancelled>>
     ELSE /\ ctxCancelled' = [ctxCancelled EXCEPT ![cancelFunc] = TRUE]
          /\ shutRepeat' = ctxCancelled[cancelFunc]
          /\ shutResult' = Nil
          /\ shutPc' = "idle"
  /\ UNCHANGED <<cfgVars, cancelFunc, ctxParent, callerCtxDone, startVars, discVars,
                 scrVars, fatal, wireVars>>

\* the host cancels the context it passed to Start
CancelCallerCtx ==
  /\ ~panicked /\ nStarts > 0 /\ ~callerCtxDone
  /\ callerCtxDone' = TRUE
  /\ UNCHANGED <<cfgVars, ctxVars, startVars, shutVars, discVars, scrVars, fatal,
                 wireVars>>

\* ---------------------------------------------------- discovery goroutine
\* a goroutine that tears the receiver down when its Run fails
DiscoveryReturnCancels(k, err) ==
  /\ disc' = [disc EXCEPT ![k] = "done"]
  /\ discRet' = [discRet EXCEPT ![k] = err]
  /\ fatal' = [fatal EXCEPT ![k].disc = GoroutineExit(@, err)]
  /\ ctxCancelled' = [ctxCancelled EXCEPT ![k] = @ \/ err # Nil]
  /\ UNCHANGED <<cfgVars, cancelFunc, ctxParent, callerCtxDone, startVars, shutVars,
                 scrVars, wireVars>>

DiscoveryReturn(k, err) ==
  /\ disc' = [disc EXCEPT ![k] = "done"]
  /\ discRet' = [discRet EXCEPT ![k] = err]
  /\ fatal' = [fatal EXCEPT ![k].disc = GoroutineExit(@, err)]
  /\ UNCHANGED <<cfgVars, ctxVars, callerCtxDone, startVars, shutVars, scrVars,
                 wireVars>>

\* lines 77-80: Run returns because its context is done
DiscoveryRunCancelled(k) ==
  /\ ~panicked /\ disc[k] = "running" /\ Done(k)
  /\ \E err \in {Nil, ErrCanceled} : DiscoveryReturn(k, err)

\* lines 77-80: Run returns an error of its own
DiscoveryRunFails(k) ==
  /\ ~panicked /\ disc[k] = "running"
  /\ DiscoveryReturn(k, ErrDiscovery)

\* ------------------------------------------------------- scrape goroutine
\* line 87: the appender built on ocaStore hands a batch to r.consumer
ScrapeDeliver(k) ==
  /\ ~panicked /\ scr[k] = "running"
  /\ batches' = ~batches
  /\ UNCHANGED <<cfgVars, ctxVars, callerCtxDone, startVars, shutVars, discVars,
                 scr, scrRet, scrSync, fatal, wireVars>>

\* lines 95-98: Run returns an error
ScrapeRunFails(k) ==
  /\ ~panicked /\ scr[k] = "running"
  /\ scr' = [scr EXCEPT ![k] = "done"]
  /\ scrRet' = [scrRet EXCEPT ![k] = ErrScrape]
  /\ fatal' = [fatal EXCEPT ![k].scr = GoroutineExit(@, ErrScrape)]
  /\ UNCHANGED <<cfgVars, ctxVars, callerCtxDone, startVars, shutVars, discVars,
                 scrSync, batches, wireVars>>

\* ---------------------------------------------------------------- Next
Next ==
  \/ StartCall
  \/ InjectLabels
  \/ DiscoveryApplyConfig
  \/ LaunchDiscovery
  \/ NewOcaStore
  \/ NewScrapeManager
  \/ SetScrapeManager
  \/ ScrapeApplyConfig
  \/ LaunchScrape
  \/ ShutdownCall
  \/ ShutdownCancel
  \/ CancelCallerCtx
  \/ \E k \in StartIds : DiscoveryRunCancelled(k)
  \/ \E k \in StartIds : DiscoveryRunFails(k)
  \/ \E k \in StartIds : ScrapeDeliver(k)
  \/ \E k \in StartIds : ScrapeRunFails(k)

Spec == Init /\ [][Next]_vars

\* The host's calls make progress on the calling goroutine; nothing is assumed
\* of the two background goroutines.
FairSpec ==
  /\ Init /\ [][Next]_vars
  /\ WF_vars(StartSteps)
  /\ WF_vars(ShutdownCancel)

\* Fair scheduling of the background goroutines as well: a discovery Run whose
\* context is done returns, a running scrape manager keeps scraping.
LoopFairSpec ==
  /\ Init /\ [][Next]_vars
  /\ WF_vars(StartSteps)
  /\ WF_vars(ShutdownCancel)
  /\ \A k \in StartIds : WF_vars(DiscoveryRunCancelled(k))
  /\ \A k \in StartIds : WF_vars(ScrapeDeliver(k))

\* Label injection over the configurations an instance can be built with:
\* Start up to the discovery manager's ApplyConfig.
InjectInit ==
  /\ scrapeConfigs \in Configs
  /\ useStartTimeMetric \in BOOLEAN
  /\ NewReceiver

InjectNext ==
  \/ StartCall
  \/ InjectLabels
  \/ DiscoveryApplyConfig

InjectSpec == InjectInit /\ [][InjectNext]_vars


\* ================================================================ claims
ConfigErrors == {ErrDiscoveryConfig, ErrScrapeConfig}

\* C1: when either ApplyConfig fails, Start returns that error and no
\* goroutine of that Start has been launched.
C1_FailedStartLaunchesNothing ==
  \A k \in StartIds :
    startResult[k] \in ConfigErrors => disc[k] = "none" /\ scr[k] = "none"

\* C2: a run loop that ends because its context was cancelled raises no
\* fatal-error notification.
EndedByCancellation(k) == disc[k] = "done" /\ discRet[k] \in {Nil, ErrCanceled}

C2_CancellationIsNotFatal ==
  \A k \in StartIds : EndedByCancellation(k) => fatal[k].disc = <<>>

\* C3: after a successful Start, once Shutdown has cancelled the context, both
\* run loops eventually terminate (fair scheduling of the loops).
C3_BothLoopsTerminate ==
  \A k \in StartIds :
    (startResult[k] = Nil /\ ctxCancelled[k]) ~> (disc[k] = "done" /\ scr[k] = "done")

\* C4: once every successfully started run has been shut down and Shutdown has
\* returned, the consumer receives no further batch.
AllShutDown ==
  /\ startPc = "idle" /\ shutPc = "idle" /\ shutResult = Nil
  /\ \E k \in StartIds : startResult[k] = Nil
  /\ \A k \in StartIds : startResult[k] = Nil => ctxCancelled[k]

C4_NoBatchAfterShutdown ==
  [][AllShutDown => batches' = batches]_vars

\* C5: when Run returns a non-nil error the goroutine reports exactly that
\* error once and ends; a nil return is not reported; a finished goroutine
\* neither runs nor reports again.
ReportsFor(err) == IF err = Nil THEN <<>> ELSE <<err>>

C5_FatalReportedOnceThenEnds ==
  [][\A k \in StartIds :
       /\ (disc[k] = "running" /\ disc'[k] # "running") =>
            /\ disc'[k] = "done"
            /\ fatal'[k].disc = ReportsFor(discRet'[k])
       /\ (scr[k] = "running" /\ scr'[k] # "running") =>
            /\ scr'[k] = "done"
            /\ fatal'[k].scr = ReportsFor(scrRet'[k])
       /\ disc[k] = "done" =>
            disc'[k] = "done" /\ discRet'[k] = discRet[k] /\ fatal'[k].disc = fatal[k].disc
       /\ scr[k] = "done" =>
            scr'[k] = "done" /\ scrRet'[k] = scrRet[k] /\ fatal'[k].scr = fatal[k].scr
       /\ disc[k] # "done" => fatal[k].disc = <<>>
       /\ scr[k] # "done" => fatal[k].scr = <<>>]_vars

C5_Witness ==
  \E k \in StartIds :
    /\ disc[k] = "done" /\ discRet[k] = ErrDiscovery /\ fatal[k].disc = <<ErrDiscovery>>
    /\ scr[k] = "done" /\ scrRet[k] = ErrScrape /\ fatal[k].scr = <<ErrScrape>>

\* C6: Shutdown returns nil without panicking in every lifecycle state.
C6_ShutdownNeverPanics == shutResult # "panic"

\* C7: after a successful Start, a Shutdown call on an already cancelled
\* instance returns nil, does not panic and changes nothing of the instance.
ShutdownActs == shutPc = "cancel" /\ (shutPc' = "idle" \/ shutResult' = "panic")

C7_SecondShutdownIdempotent ==
  [][(/\ ShutdownActs
      /\ cancelFunc # NoFunc
      /\ startResult[cancelFunc] = Nil
      /\ ctxCancelled[cancelFunc])
     => /\ shutResult' = Nil
        /\ shutPc' = "idle"
        /\ UNCHANGED <<cfgVars, ctxVars, callerCtxDone, startVars, discVars, scrVars,
                       fatal, wireVars>>]_vars

C7_Witness ==
  /\ shutPc = "idle" /\ shutResult = Nil /\ shutRepeat
  /\ cancelFunc # NoFunc
  /\ startResult[cancelFunc] = Nil /\ ctxCancelled[cancelFunc]

\* C8: a Start or Shutdown call in progress is never blocked: in every
\* reachable state, whatever the two run loops are doing (running, returned or
\* not yet launched), the next step of the call can be taken.  Each call is a
\* fixed, loop-free sequence of steps, so a call that is never blocked returns
\* (or ends in the panic of a nil cancel function) under FairSpec.
CallInProgress == ~panicked /\ (startPc # "idle" \/ shutPc = "cancel")

C8_CallsNeverWaitOnLoops ==
  CallInProgress => ENABLED (StartSteps \/ ShutdownCancel)

C8_Witness ==
  \E k \in StartIds :
    /\ startResult[k] = Nil /\ ctxCancelled[k]
    /\ startPc = "idle" /\ shutPc = "idle" /\ shutResult = Nil
    /\ disc[k] = "running" /\ scr[k] = "running"

\* C9: the run loops' context descends from a background root: cancelling the
\* context passed to Start neither finishes it nor ends a run loop, and only
\* Shutdown's call of the stored cancel function finishes it.
C9_OnlyShutdownCancels ==
  [][/\ callerCtxDone' # callerCtxDone =>
          /\ \A k \in StartIds : Done(k)' = Done(k)
          /\ UNCHANGED <<disc, scr>>
     /\ \A k \in StartIds :
          (~Done(k) /\ Done(k)') => (ShutdownActs /\ cancelFunc = k /\ shutResult' = Nil)
     /\ \A k \in StartIds : ctxParent'[k] # "caller"]_vars

C9_Witness ==
  /\ callerCtxDone
  /\ \E k \in StartIds :
       /\ startResult[k] = Nil /\ ~Done(k)
       /\ disc[k] = "running" /\ scr[k] = "running"

\* C10: the injection step leaves every job's rules as they were, in order,
\* followed by one Replace rule whose regex matches the instance label, whose
\* target is the magic job label and whose replacement is that job's name and
\* no other job's.
InjectionActs == startPc = "inject" /\ startPc' # "inject"

C10_InjectionAppendsOwnJobRule ==
  [][InjectionActs =>
       /\ Len(scrapeConfigs') = Len(scrapeConfigs)
       /\ \A i \in DOMAIN scrapeConfigs :
            LET old == scrapeConfigs[i].RelabelConfigs
                new == scrapeConfigs'[i].RelabelConfigs
                last == new[Len(new)]
            IN /\ scrapeConfigs'[i].JobName = scrapeConfigs[i].JobName
               /\ Len(new) = Len(old) + 1
               /\ SubSeq(new, 1, Len(old)) = old
               /\ last.Action = "replace"
               /\ RegexMatches(last.Regex, InstanceLabel)
               /\ last.TargetLabel = MagicScrapeJobLabel
               /\ last.Replacement = scrapeConfigs[i].JobName
               /\ \A j \in DOMAIN scrapeConfigs :
                    j # i => last.Replacement # scrapeConfigs[j].JobName]_vars

C10_Witness ==
  /\ startPc = "discApply"
  /\ Len(scrapeConfigs) = 2
  /\ scrapeConfigs[1].RelabelConfigs =
       <<DropRule, KeepRule, NewRelabelConfig(scrapeConfigs, 1)>>
  /\ scrapeConfigs[2].RelabelConfigs[Len(scrapeConfigs[2].RelabelConfigs)].Replacement
       = JobNames[2]

\* C11: every context created by Start that is not yet cancelled is the one
\* the stored cancel function cancels, so at most one such context exists.
ContextLive(k) == ctxParent[k] # "none" /\ ~ctxCancelled[k]

C11_LiveContextHasStoredHandle ==
  \A k \in StartIds : ContextLive(k) => cancelFunc = k

\* C12: while the Start call in progress has not yet got the return of the
\* scrape manager's ApplyConfig, none of its goroutines has been launched.
BeforeScrapeApplied ==
  startPc \in {"inject", "discApply", "discRun", "store", "scrapeNew", "setBackRef",
               "scrapeApply"}

C12_NoLaunchBeforeBothApplied ==
  BeforeScrapeApplied => disc[nStarts] = "none" /\ scr[nStarts] = "none"

\* C13: the discovery goroutine of a Start is launched before its scrape
\* manager is constructed and before its scrape goroutine is launched, and the
\* scrape goroutine reads the sync stream of the discovery manager of the same
\* Start.
C13_DiscoveryFirstSameSyncStream ==
  \A k \in StartIds :
    /\ scrapeManager[k] => disc[k] # "none"
    /\ ocaStore[k].built => disc[k] # "none"
    /\ scr[k] # "none" => disc[k] # "none" /\ scrSync[k] = k
    /\ scr[k] = "none" => scrSync[k] = NoFunc

C13_Witness ==
  /\ nStarts = 2
  /\ \A k \in {1, 2} : scr[k] = "running" /\ scrSync[k] = k /\ disc[k] # "none"

\* C14: from the discovery manager's ApplyConfig on (hence at its Run and at
\* the scrape manager's ApplyConfig), every job carries the injected rule for
\* its own name.
HasInjectedRule(i) ==
  \E n \in 1..Len(scrapeConfigs[i].RelabelConfigs) :
    scrapeConfigs[i].RelabelConfigs[n] = NewRelabelConfig(scrapeConfigs, i)

AllInjected == \A i \in DOMAIN scrapeConfigs : HasInjectedRule(i)

C14_InjectedBeforeDiscoveryStarts ==
  /\ startPc \notin {"idle", "inject"} => AllInjected
  /\ (\E k \in StartIds : disc[k] # "none" \/ scr[k] # "none") => AllInjected

C14_Witness ==
  /\ startPc = "scrapeApply" /\ nStarts = 1
  /\ disc[1] = "running"
  /\ Len(scrapeConfigs) = 2 /\ AllInjected

\* C15: once Start has run its injection step, every job carries exactly one
\* injected rule, in every state any sequence of Start and Shutdown calls
\* reaches.
InjectedCount(i) ==
  Cardinality({n \in 1..Len(scrapeConfigs[i].RelabelConfigs) :
                 scrapeConfigs[i].RelabelConfigs[n] = NewRelabelConfig(scrapeConfigs, i)})

InjectionDone == nStarts > 1 \/ (nStarts = 1 /\ startPc # "inject")

C15_InjectedExactlyOnce ==
  InjectionDone => \A i \in DOMAIN scrapeConfigs : InjectedCount(i) = 1

\* C16: the start-time strategy follows the instance's flag: the bridge of a
\* Start holds a side-table, with a two-minute horizon, exactly when the flag
\* is false, and no side-table exists when the flag is true.
C16_JobsMapIffNoStartTimeMetric ==
  \A k \in StartIds :
    /\ ocaStore[k].built =>
         /\ ocaStore[k].useStartTimeMetric = useStartTimeMetric
         /\ ocaStore[k].jobsMap = ~useStartTimeMetric
         /\ ocaStore[k].gcMinutes = (IF useStartTimeMetric THEN 0 ELSE 2)
    /\ ~ocaStore[k].built => ~ocaStore[k].jobsMap
    /\ useStartTimeMetric => ~ocaStore[k].jobsMap

C16_Witness ==
  /\ ~useStartTimeMetric /\ nStarts = 2
  /\ \A k \in {1, 2} : ocaStore[k].built /\ ocaStore[k].jobsMap

\* C17 (as claimed): host.ReportFatalError is called at most once in total for
\* one started instance, even when both run loops fail.
ReportCount(k) == Len(fatal[k].disc) + Len(fatal[k].scr)

C17_AtMostOneReportInTotal ==
  \A k \in StartIds : ReportCount(k) <= 1

\* C17 (amended): each run loop of a Start calls host.ReportFatalError at most
\* once, so one Start raises at most two notifications.
C17_AtMostOneReportPerLoop ==
  \A k \in StartIds :
    /\ Len(fatal[k].disc) <= 1
    /\ Len(fatal[k].scr) <= 1
    /\ ReportCount(k) <= 2

C17_Witness ==
  \E k \in StartIds : ReportCount(k) = 2 /\ startResult[k] = Nil

\* C18: Start stores the cancel function of its new context before any step
\* that can fail: from the first step of the latest Start on, the stored
\* function is that Start's, and a Shutdown after any return of Start returns
\* nil and cancels that Start's context.
C18_HandleStoredBeforeFailure ==
  [][/\ nStarts > 0 => cancelFunc = nStarts
     /\ nStarts' > 0 => cancelFunc' = nStarts'
     /\ (ShutdownActs /\ nStarts > 0) =>
          /\ shutResult' = Nil
          /\ shutPc' = "idle"
          /\ ctxCancelled'[nStarts]]_vars

C18_Witness ==
  /\ nStarts > 0 /\ cancelFunc = nStarts
  /\ startResult[nStarts] \in ConfigErrors
  /\ ctxCancelled[nStarts]
  /\ shutPc = "idle" /\ shutResult = Nil

\* C19: a goroutine that ends changes nothing of the instance: the contexts,
\* the stored cancel function, the configuration, the calls in progress and
\* the other goroutines stay as they are.
InstanceUnchanged ==
  UNCHANGED <<cfgVars, ctxVars, callerCtxDone, startVars, shutVars, wireVars, scrSync,
              batches>>

C19_LoopFailureLeavesInstanceAlone ==
  [][\A k \in StartIds :
       /\ (disc[k] = "running" /\ disc'[k] = "done") =>
            /\ InstanceUnchanged
            /\ UNCHANGED <<scr, scrRet>>
            /\ \A j \in StartIds \ {k} : disc'[j] = disc[j] /\ fatal'[j] = fatal[j]
            /\ fatal'[k].scr = fatal[k].scr
       /\ (scr[k] = "running" /\ scr'[k] = "done") =>
            /\ InstanceUnchanged
            /\ UNCHANGED <<disc, discRet>>
            /\ \A j \in StartIds \ {k} : scr'[j] = scr[j] /\ fatal'[j] = fatal[j]
            /\ fatal'[k].disc = fatal[k].disc]_vars

C19_Witness ==
  \E k \in StartIds :
    /\ disc[k] = "done" /\ discRet[k] = ErrDiscovery
    /\ scr[k] = "running"
    /\ ~Done(k) /\ cancelFunc = k /\ startPc = "idle"

\* C20: the bridge exists before the scrape manager, it is built without a
\* back-reference, and its back-reference is the scrape manager of the same
\* Start from before the scrape ApplyConfig on, hence whenever the scrape
\* goroutine has been launched.
C20_BridgeTwoPhaseInit ==
  \A k \in StartIds :
    /\ scrapeManager[k] => ocaStore[k].built
    /\ ocaStore[k].scrapeManager # NoFunc =>
         scrapeManager[k] /\ ocaStore[k].scrapeManager = k
    /\ (k = nStarts /\ startPc = "scrapeNew") =>
         ocaStore[k].built /\ ocaStore[k].scrapeManager = NoFunc /\ ~scrapeManager[k]
    /\ (k = nStarts /\ startPc \in {"scrapeApply", "scrapeRun"}) =>
         ocaStore[k].scrapeManager = k
    /\ startResult[k] = ErrScrapeConfig => ocaStore[k].scrapeManager = k
    /\ scr[k] # "none" => ocaStore[k].scrapeManager = k

C20_Witness ==
  \E k \in StartIds :
    /\ scr[k] = "running" /\ batches
    /\ ocaStore[k].built /\ scrapeManager[k] /\ ocaStore[k].scrapeManager = k
====
